---- MODULE Spec2Model ----
(***************************************************************************)
(* Model of scripts/check-site.ts: the site verification harness.          *)
(*                                                                         *)
(* Strings are sequences of atoms.  An atom is a piece of text that the    *)
(* patterns of the script either match as a whole or not at all            *)
(* ("/", "index", ".zh-CN", "-", "c", ...), so that replace, includes,     *)
(* split and the regular expression of the script can be computed on the   *)
(* sequence exactly as they are computed on the text.                      *)
(*                                                                         *)
(* Three specifications share the variables:                               *)
(*   SpecInventory  the page inventory (lines 11-24)                       *)
(*   SpecName       handleComponentName (lines 72-77)                      *)
(*   Spec           one jest run after the other of describe('site test'): *)
(*                  beforeAll, the scenarios with render, afterAll         *)
(***************************************************************************)
EXTENDS Integers, Sequences, FiniteSets, TLC

VARIABLES
    \* ---- page inventory (module level of check-site.ts) ----
    platform,      \* "posix" | "win32": the separator globSync returns
    tree,          \* the markdown files of the source tree, "/"-separated
    matched,       \* what globSync returned
    components,    \* the inventory (const components)
    ipc,           \* "fs" before the module is evaluated, "discovered" after
    \* ---- handleComponentName ----
    name,          \* the argument
    derived,       \* the returned component name
    npc,           \* "arg" | "returned"
    \* ---- the run ----
    phase,         \* position of the runner
    portState,     \* portPromise: "pending" | "resolved" | "rejected"
    port,          \* the value portPromise resolved to (0: none)
    portCalls,     \* number of calls of portfinder.getPortPromise
    server,        \* [live, port, created]
    browser,       \* [state, created, pages]
    cur,           \* index of the scenario being executed
    pc,            \* position inside the scenario / render
    url,           \* [port, path] of the current render call
    nav,           \* what page.goto returned: "none" | "null" | a status
    selector,      \* "none" | "found" | "timeout"
    captured,      \* markup page.content() returned, or NoMarkup
    fetched,       \* body the fallback fetch returned, or NoMarkup
    result,        \* what render returned, or NoResult
    logged,        \* console.error was called by this render
    threw,         \* the step of the primary strategy that threw: "none" | "goto" | "content"
    navigated,     \* the URL handed to page.goto by this render
    requested,     \* the URL handed to fetch by this render
    outcome,       \* scenario index -> "pending" | "passed" | "failed"
    executed,      \* scenario index -> the scenario's body ran
    snapshots,     \* the snapshot file: scenario index -> count | NoSnapshot
    updateMode     \* the run was started with --updateSnapshot

invVars == <<platform, tree, matched, components, ipc>>
nameVars == <<name, derived, npc>>
runVars == <<phase, portState, port, portCalls, server, browser, cur, pc, url,
             nav, selector, captured, fetched, result, logged, threw,
             navigated, requested, outcome, executed, snapshots, updateMode>>
vars == <<invVars, nameVars, runVars>>

(***************************************************************************)
(* Strings                                                                 *)
(***************************************************************************)

\* String.prototype.toLowerCase on one atom.
LowerAtom(a) ==
    CASE a = "A" -> "a"
      [] a = "B" -> "b"
      [] a = "C" -> "c"
      [] a = "N" -> "n"
      [] a = ".zh-CN" -> ".zh-cn"
      [] a = ".en-US" -> ".en-us"
      [] a = ".MD" -> ".md"
      [] a = "Index" -> "index"
      [] OTHER -> a

ToLowerCase(s) == [i \in 1..Len(s) |-> LowerAtom(s[i])]

\* pat occurs in s at position i.
OccursAt(s, pat, i) ==
    /\ i >= 1
    /\ i + Len(pat) - 1 <= Len(s)
    /\ SubSeq(s, i, i + Len(pat) - 1) = pat

\* String.prototype.includes, and expect(s).toMatch(pat) for a string pat.
Includes(s, pat) == \E i \in 1..(Len(s) + 1) : OccursAt(s, pat, i)

\* Index of the first occurrence (String.prototype.indexOf), 0 if none.
IndexOf(s, pat) ==
    IF Includes(s, pat)
    THEN CHOOSE i \in 1..(Len(s) + 1) :
            /\ OccursAt(s, pat, i)
            /\ \A j \in 1..(i - 1) : ~OccursAt(s, pat, j)
    ELSE 0

\* String.prototype.replace(pat, rep) with a string pattern: first occurrence only.
ReplaceFirst(s, pat, rep) ==
    LET i == IndexOf(s, pat)
    IN  IF i = 0 THEN s
        ELSE SubSeq(s, 1, i - 1) \o rep \o SubSeq(s, i + Len(pat), Len(s))

\* String.prototype.replace(/\\/g, '/'): every backslash.
ReplaceBackslashes(s) == [i \in 1..Len(s) |-> IF s[i] = "\\" THEN "/" ELSE s[i]]

\* Number of separators: s.split('/').length - 1.
CountSlashes(s) == Cardinality({i \in 1..Len(s) : s[i] = "/"})

\* parts[parts.length - 1] of s.split('/').
LastPart(s) ==
    LET slashes == {i \in 1..Len(s) : s[i] = "/"}
        last == IF slashes = {} THEN 0
                ELSE CHOOSE i \in slashes : \A j \in slashes : j <= i
    IN  SubSeq(s, last + 1, Len(s))

(***************************************************************************)
(* Page inventory: const components (lines 11-24)                          *)
(***************************************************************************)

\* Longest tail (in units) appended to a stem when the source tree is drawn.
MaxTail == 2

\* The parts of /([/\\]index)?(\.\$tab-design)?((\.zh-cn)|(\.en-us))?\.md$/i,
\* lower-cased (the i flag).
IndexPart == {<<>>, <<"/", "index">>, <<"\\", "index">>}

TabPart == {<<>>, <<".$tab-design">>}

LocalePart == {<<>>, <<".zh-cn">>, <<".en-us">>}

ExtensionOptional == {<<>>, <<".md">>}

ExtensionPart == {<<".md">>}

\* Every text the regular expression matches up to the end of the string.
RegexLanguage ==
    {i \o t \o l \o e : i \in IndexPart, t \in TabPart, l \in LocalePart,
                        e \in ExtensionPart}

\* Start of the match of the regular expression in s: the leftmost position
\* from which the rest of s is in the language ($ anchors the end), 0 if none.
RegexMatchStart(s) ==
    LET starts == {i \in 1..(Len(s) + 1) :
                      ToLowerCase(SubSeq(s, i, Len(s))) \in RegexLanguage}
    IN  IF starts = {} THEN 0
        ELSE CHOOSE i \in starts : \A j \in starts : i <= j

\* The callback of .map (lines 15-23).
Normalize(filePath) ==
    LET normalizedPath == ReplaceBackslashes(filePath)
        i == RegexMatchStart(normalizedPath)
    IN  IF i = 0 THEN normalizedPath ELSE SubSeq(normalizedPath, 1, i - 1)

\* Atoms that begin with a dot (glob's dot: false skips names that begin so).
DotAtoms == {".md", ".MD", ".zh-CN", ".zh-cn", ".en-US", ".en-us", ".$tab-design"}

\* p, "/"-separated, matches 'components/!(overview)/*.md' with dot: false.
GlobMatches(p) ==
    /\ Len(p) >= 6
    /\ p[1] = "components"
    /\ p[2] = "/"
    /\ CountSlashes(p) = 2
    /\ LET k == CHOOSE i \in 3..Len(p) : p[i] = "/"
           dir == SubSeq(p, 3, k - 1)
           file == SubSeq(p, k + 1, Len(p))
       IN  /\ dir # <<>>
           /\ dir # <<"overview">>
           /\ dir[1] \notin DotAtoms
           /\ file # <<>>
           /\ file[1] \notin DotAtoms
           /\ file[Len(file)] = ".md"

\* A path as the platform's glob returns it.
Native(p, plat) ==
    [i \in 1..Len(p) |-> IF p[i] = "/" /\ plat = "win32" THEN "\\" ELSE p[i]]

\* globSync('components/!(overview)/*.md', ...) over the tree.
GlobSync(files, plat) ==
    LET hits == SelectSeq(files, GlobMatches)
    IN  [i \in 1..Len(hits) |-> Native(hits[i], plat)]

RECURSIVE UniqFrom(_, _)
UniqFrom(s, seen) ==
    IF s = <<>> THEN <<>>
    ELSE IF Head(s) \in seen THEN UniqFrom(Tail(s), seen)
         ELSE <<Head(s)>> \o UniqFrom(Tail(s), seen \cup {Head(s)})

NoUniq(s) == s

\* lodash uniq: first occurrences, in order.
Uniq(s) == UniqFrom(s, {})

\* The predicate of .filter (line 24).
NotUtil(component) == ~Includes(component, <<"_util">>)

\* const components = uniq(globSync(...).map(...)).filter(...)
Inventory(files, plat) ==
    LET paths == GlobSync(files, plat)
    IN  SelectSeq(Uniq([i \in 1..Len(paths) |-> Normalize(paths[i])]), NotUtil)

\* ---- the source trees the inventory is drawn from ----
Stems == {<<"a">>, <<"_util">>, <<"overview">>, <<"a", "/", "b">>}

TailUnits == {<<"/", "index">>, <<".$tab-design">>, <<".zh-CN">>, <<".en-us">>,
              <<".md">>}

RECURSIVE Tails(_)
Tails(n) ==
    IF n = 0 THEN {<<>>}
    ELSE Tails(n - 1) \cup {t \o u : t \in Tails(n - 1), u \in TailUnits}

SourcePath(stem, tail) == <<"components", "/">> \o stem \o tail \o <<".md">>

Trees ==
    {<<SourcePath(st, t)>> : st \in Stems, t \in Tails(MaxTail)}
    \cup {<<SourcePath(st, t), SourcePath(st, u)>> :
             st \in Stems, t \in Tails(MaxTail), u \in Tails(MaxTail)}

InitInventory ==
    /\ platform \in {"posix", "win32"}
    /\ tree \in {t \in Trees : Len(t) = 1 \/ t[1] # t[2]}
    /\ matched = <<>>
    /\ components = <<>>
    /\ ipc = "fs"

\* Evaluation of the module: lines 11-24.
Discover ==
    /\ ipc = "fs"
    /\ UNCHANGED <<nameVars, runVars>>
    /\ matched' = GlobSync(tree, platform)
    /\ components' = Inventory(tree, platform)
    /\ ipc' = "discovered"
    /\ UNCHANGED <<platform, tree>>


(***************************************************************************)
(* handleComponentName (lines 72-77)                                       *)
(***************************************************************************)

\* Longest last segment of a page identifier handed to handleComponentName.
MaxSegment == 5

LocaleMarker == <<"-", "c", "n">>

HandleComponentName(n) ==
    LET componentName == LastPart(n)
    IN  ReplaceFirst(ReplaceFirst(ToLowerCase(componentName), LocaleMarker, <<>>),
                     <<"-">>, <<>>)

NameAtoms == {"a", "B", "-", "c", "n"}

RECURSIVE Segments(_)
Segments(n) ==
    IF n = 0 THEN {<<>>}
    ELSE Segments(n - 1) \cup {s \o <<a>> : s \in Segments(n - 1), a \in NameAtoms}

\* A file name: it begins and ends with a letter and has no two hyphens in a row.
WellFormed(s) ==
    /\ s # <<>>
    /\ s[1] # "-"
    /\ s[Len(s)] # "-"
    /\ \A i \in 1..(Len(s) - 1) : ~(s[i] = "-" /\ s[i + 1] = "-")

\* s ends in the locale marker.
EndsInMarker(s) ==
    Len(s) >= Len(LocaleMarker)
    /\ SubSeq(s, Len(s) - Len(LocaleMarker) + 1, Len(s)) = LocaleMarker

\* Page identifiers "components/<segment>" of the base locale (the inventory
\* holds these; the scenarios append "-cn" to them).
Identifiers ==
    {<<"components", "/">> \o s :
        s \in {t \in Segments(MaxSegment) :
                  WellFormed(t) /\ ~EndsInMarker(ToLowerCase(t))}}

InitName ==
    /\ name \in Identifiers \cup {id \o LocaleMarker : id \in Identifiers}
    /\ derived = <<>>
    /\ npc = "arg"

CallHandleComponentName ==
    /\ npc = "arg"
    /\ UNCHANGED <<invVars, runVars>>
    /\ derived' = HandleComponentName(name)
    /\ npc' = "returned"
    /\ UNCHANGED name


(***************************************************************************)
(* The run: describe('site test') (lines 26-223)                           *)
(***************************************************************************)

\* Longest markup (in elements) a page answers with.
MaxElems == 1

\* portfinder.getPortPromise({ port: 3000 }): the preferred port.
BasePort == 3000

\* expect(status).toBe(200)
HttpOk == 200

\* The ports the allocator may answer with: the preferred one while it is
\* free, the next one once the server of the run holds it.
Ports == {BasePort, BasePort + 1}

\* The ports free when the run starts: the preferred port is.
FreePorts == {BasePort}

\* The statuses a navigation may answer with.
NavStatuses == {HttpOk}

\* The statuses fetch may answer with.
Statuses == {HttpOk, 404}

\* The inventory of the run: one top-level component page and one nested page.
RunInventory == << <<"components", "/", "a", "-", "b">>,
                   <<"components", "/", "a", "/", "c">> >>

AntDesign == <<"Ant Design">>

\* The it(...) calls of lines 137-209, in order.  The phrases of the zh pages
\* are written in pinyin: ZuJianZongLan, ZiYuan.
FixedScenarios ==
    << [kind |-> "home", path |-> <<"/">>, phrase |-> AntDesign, component |-> <<>>],
       [kind |-> "home", path |-> <<"/index-cn">>, phrase |-> AntDesign,
        component |-> <<>>],
       [kind |-> "text", path |-> <<"/components/overview">>,
        phrase |-> <<"Overview">>, component |-> <<>>],
       [kind |-> "text", path |-> <<"/components/overview-cn">>,
        phrase |-> <<"ZuJianZongLan">>, component |-> <<>>],
       [kind |-> "text", path |-> <<"/docs/resources">>,
        phrase |-> <<"Resources">>, component |-> <<>>],
       [kind |-> "text", path |-> <<"/docs/resources-cn">>,
        phrase |-> <<"ZiYuan">>, component |-> <<>>] >>

\* expectComponent's render(`/${component}/`)
ComponentScenario(component) ==
    [kind |-> "component", path |-> <<"/">> \o component \o <<"/">>,
     phrase |-> <<>>, component |-> component]

\* The loop of lines 211-222: two it(...) per component of depth below 3.
RECURSIVE ComponentScenarios(_)
ComponentScenarios(comps) ==
    IF comps = <<>> THEN <<>>
    ELSE (IF CountSlashes(Head(comps)) + 1 < 3
          THEN << ComponentScenario(Head(comps) \o LocaleMarker),
                  ComponentScenario(Head(comps)) >>
          ELSE <<>>) \o ComponentScenarios(Tail(comps))

Registered == FixedScenarios \o ComponentScenarios(RunInventory)

N == Len(Registered)

ScenarioIds == 1..N

ComponentIds == {i \in ScenarioIds : Registered[i].kind = "component"}

\* ---- markup ----
Element(tag, text, md) == [tag |-> tag, text |-> text, md |-> md]

\* What the pages of a scenario may hold.
ElementsFor(s) ==
    CASE s.kind = "home" ->
            {Element("title", AntDesign, FALSE), Element("title", <<"x">>, FALSE)}
      [] s.kind = "text" ->
            {Element("h1", s.phrase, FALSE), Element("h1", <<"x">>, FALSE)}
      [] OTHER ->
            {Element("h1", <<"A", "b">>, FALSE), Element("h1", <<"x">>, FALSE),
             Element("table", <<>>, TRUE), Element("table", <<>>, FALSE)}

RECURSIVE MarkupsUpTo(_, _)
MarkupsUpTo(elems, n) ==
    IF n = 0 THEN {<<>>}
    ELSE MarkupsUpTo(elems, n - 1)
         \cup {m \o <<e>> : m \in MarkupsUpTo(elems, n - 1), e \in elems}

Markups(s) == MarkupsUpTo(ElementsFor(s), MaxElems)

\* Every markup of every scenario.
AllMarkups == UNION {Markups(Registered[i]) : i \in ScenarioIds}

\* $('title').first().text()
TitleText(doc) ==
    LET titles == SelectSeq(doc, LAMBDA e : e.tag = "title")
    IN  IF titles = <<>> THEN <<>> ELSE titles[1].text

\* $('h1').text(): the texts of all h1 elements, concatenated.
RECURSIVE H1Text(_)
H1Text(doc) ==
    IF doc = <<>> THEN <<>>
    ELSE (IF Head(doc).tag = "h1" THEN Head(doc).text ELSE <<>>) \o H1Text(Tail(doc))

AllTables(doc) == Len(SelectSeq(doc, LAMBDA e : e.tag = "table"))

\* $('.markdown table').length
CountTables(doc) == Len(SelectSeq(doc, LAMBDA e : e.tag = "table" /\ e.md))

\* ---- render (lines 35-70) ----
NoNav == [kind |-> "none", status |-> 0]

NullResponse == [kind |-> "null", status |-> 0]

Response(st) == [kind |-> "response", status |-> st]

NoUrl == [port |-> 0, path |-> <<>>]

NoMarkup == [present |-> FALSE, status |-> 0, html |-> <<>>]

NoResult == [status |-> 0, doc |-> <<>>, via |-> "none"]

RenegotiatedPort(resolved, fresh) == fresh

\* const port = await portPromise (line 36): the value the one promise holds.
RenderPort(resolved, fresh) == resolved

\* response?.status() || 0
NavStatus(n) ==
    IF n.kind = "response" /\ n.status # 0 THEN n.status ELSE 0

\* return { status: response?.status() || 0, $ } (line 60)
PrimaryResult(n, html) == [status |-> NavStatus(n), doc |-> html, via |-> "browser"]

StaleFallbackResult(st, body) == [status |-> 0, doc |-> body, via |-> "fetch"]

\* return { status: resp.status, $ } (line 68)
FallbackResult(st, body) == [status |-> st, doc |-> body, via |-> "fetch"]

SelectorTimeoutRethrown == "fallback"

\* catch { } of the inner try (lines 52-54): execution goes on at line 57.
AfterSelectorTimeout == "content"

SwallowedFailure == [pc |-> "returned", result |-> [status |-> HttpOk, doc |-> <<>>, via |-> "fetch"]]

\* fetch / resp.text() rejects inside the catch block (lines 64-66): the
\* rejection leaves render.
FallbackFailure == [pc |-> "thrown", result |-> NoResult]

\* ---- assertions ----
AnyAnswer(status) == status # 0

\* expect(status).toBe(200)
ExpectStatus(status) == status = HttpOk

\* Lines 137-161.
HomeBody(res) ==
    /\ ExpectStatus(res.status)
    /\ LET title == TitleText(res.doc)
       IN  (title # <<>> /\ Includes(title, AntDesign)) => Includes(title, AntDesign)

\* Lines 163-209.
TextBody(res, phrase) ==
    /\ ExpectStatus(res.status)
    /\ LET h1Text == H1Text(res.doc)
       IN  h1Text # <<>> => Includes(h1Text, phrase)

\* Lines 80-89 of expectComponent.
ComponentChecks(res, component) ==
    /\ ExpectStatus(res.status)
    /\ LET h1Text == ToLowerCase(H1Text(res.doc))
           expectedText == HandleComponentName(component)
       IN  (expectedText # <<>> /\ h1Text # <<>>) => Includes(h1Text, expectedText)

NoSnapshot == [recorded |-> FALSE, count |-> 0]

Recorded(n) == [recorded |-> TRUE, count |-> n]

\* expect(value).toMatchSnapshot() (line 100): a first value is recorded, an
\* equal value passes, another value fails unless the run updates snapshots.
ToMatchSnapshot(value, stored, update) ==
    IF ~stored.recorded THEN [pass |-> TRUE, stored |-> Recorded(value)]
    ELSE IF stored.count = value THEN [pass |-> TRUE, stored |-> stored]
    ELSE IF update THEN [pass |-> TRUE, stored |-> Recorded(value)]
    ELSE [pass |-> FALSE, stored |-> stored]

\* The body of scenario s after render returned res: does every expect hold?
BodyPasses(s, res, stored, update) ==
    CASE s.kind = "home" -> HomeBody(res)
      [] s.kind = "text" -> TextBody(res, s.phrase)
      [] OTHER -> /\ ComponentChecks(res, s.component)
                  /\ ToMatchSnapshot(CountTables(res.doc), stored, update).pass

\* The snapshot file after the body of scenario s.
SnapshotAfter(s, res, stored, update) ==
    IF s.kind = "component" /\ ComponentChecks(res, s.component)
    THEN ToMatchSnapshot(CountTables(res.doc), stored, update).stored
    ELSE stored


\* ---- state of the run ----
callVars == <<url, nav, selector, captured, fetched, result, logged, threw,
              navigated, requested>>

NoCall ==
    /\ url = NoUrl
    /\ nav = NoNav
    /\ selector = "none"
    /\ captured = NoMarkup
    /\ fetched = NoMarkup
    /\ result = NoResult
    /\ logged = FALSE
    /\ threw = "none"
    /\ navigated = NoUrl
    /\ requested = NoUrl

ClearCall ==
    /\ url' = NoUrl
    /\ nav' = NoNav
    /\ selector' = "none"
    /\ captured' = NoMarkup
    /\ fetched' = NoMarkup
    /\ result' = NoResult
    /\ logged' = FALSE
    /\ threw' = "none"
    /\ navigated' = NoUrl
    /\ requested' = NoUrl

\* A jest process at its start: the module is evaluated, portPromise is
\* created (line 31), nothing is set up.
RunStart ==
    /\ phase = "port"
    /\ portState = "pending"
    /\ port = 0
    /\ portCalls = 1
    /\ server = [live |-> FALSE, port |-> 0, created |-> 0]
    /\ browser = [state |-> "none", created |-> 0, page |-> FALSE]
    /\ cur = 1
    /\ pc = "idle"
    /\ NoCall
    /\ outcome = [i \in ScenarioIds |-> "pending"]
    /\ executed = [i \in ScenarioIds |-> FALSE]

InventoryIdle ==
    /\ platform = "posix"
    /\ tree = <<>>
    /\ matched = <<>>
    /\ components = RunInventory
    /\ ipc = "discovered"

NameIdle ==
    /\ name = <<>>
    /\ derived = <<>>
    /\ npc = "arg"

RunIdle ==
    /\ RunStart
    /\ snapshots = [i \in ComponentIds |-> NoSnapshot]
    /\ updateMode = FALSE

BaselineValues == {NoSnapshot} \cup {Recorded(n) : n \in 0..MaxElems}

Init ==
    /\ InventoryIdle
    /\ NameIdle
    /\ RunStart
    /\ snapshots \in [ComponentIds -> BaselineValues]
    /\ updateMode \in BOOLEAN

\* ---- beforeAll (lines 103-127) ----
\* A hook that throws: jest fails every scenario of the block without running
\* it, and goes on to afterAll.
SetupFails ==
    /\ outcome' = [i \in ScenarioIds |-> "failed"]
    /\ UNCHANGED <<invVars, nameVars>>
    /\ phase' = "afterAll"
    /\ UNCHANGED <<cur, pc, callVars, executed, snapshots, updateMode, portCalls>>

\* Lines 104-107: portPromise resolves, the server is created and listens.
PortResolves(p) ==
    /\ phase = "port"
    /\ UNCHANGED <<invVars, nameVars>>
    /\ portState' = "resolved"
    /\ port' = p
    /\ server' = [live |-> TRUE, port |-> p, created |-> server.created + 1]
    /\ phase' = "launch"
    /\ UNCHANGED <<browser, cur, pc, callVars, outcome, executed, snapshots,
                   updateMode, portCalls>>

PortRejects ==
    /\ phase = "port"
    /\ portState' = "rejected"
    /\ SetupFails
    /\ UNCHANGED <<port, server, browser>>

\* Lines 110-121.
LaunchOK ==
    /\ phase = "launch"
    /\ UNCHANGED <<invVars, nameVars>>
    /\ browser' = [state |-> "live", created |-> browser.created + 1, page |-> FALSE]
    /\ phase' = "newPage"
    /\ UNCHANGED <<portState, port, portCalls, server, cur, pc, callVars, outcome,
                   executed, snapshots, updateMode>>

LaunchThrows ==
    /\ phase = "launch"
    /\ SetupFails
    /\ UNCHANGED <<portState, port, server, browser>>

\* Line 122.
NewPageOK ==
    /\ phase = "newPage"
    /\ UNCHANGED <<invVars, nameVars>>
    /\ browser' = [browser EXCEPT !.page = TRUE]
    /\ phase' = "viewport"
    /\ UNCHANGED <<portState, port, portCalls, server, cur, pc, callVars, outcome,
                   executed, snapshots, updateMode>>

NewPageThrows ==
    /\ phase = "newPage"
    /\ SetupFails
    /\ UNCHANGED <<portState, port, server, browser>>

\* Lines 125-126.
ViewportOK ==
    /\ phase = "viewport"
    /\ UNCHANGED <<invVars, nameVars>>
    /\ phase' = "tests"
    /\ UNCHANGED <<portState, port, portCalls, server, browser, cur, pc, callVars,
                   outcome, executed, snapshots, updateMode>>

ViewportThrows ==
    /\ phase = "viewport"
    /\ SetupFails
    /\ UNCHANGED <<portState, port, server, browser>>

\* ---- a scenario: it(...) and render (lines 35-70, 137-222) ----
sessionVars == <<phase, portState, port, portCalls, server, browser, cur, outcome,
                 executed, snapshots, updateMode>>

\* The runner calls the body of scenario cur, which calls render: lines 36-41
\* up to the call of page.goto.
StartScenario(fresh) ==
    /\ phase = "tests"
    /\ UNCHANGED <<invVars, nameVars>>
    /\ pc = "idle"
    /\ cur <= N
    /\ executed' = [executed EXCEPT ![cur] = TRUE]
    /\ url' = [port |-> RenderPort(port, fresh), path |-> Registered[cur].path]
    /\ navigated' = url'
    /\ pc' = "goto"
    /\ UNCHANGED <<phase, portState, port, portCalls, server, browser, cur, outcome,
                   snapshots, updateMode, nav, selector, captured, fetched, result,
                   logged, threw, requested>>

\* page.goto resolves (line 41) with a response or with null.
GotoOK(r) ==
    /\ pc = "goto"
    /\ UNCHANGED <<invVars, nameVars>>
    /\ nav' = r
    /\ pc' = "settle"
    /\ UNCHANGED <<sessionVars, url, selector, captured, fetched, result, logged,
                   threw, navigated, requested>>

\* Entering the catch block: console.error, then fetch(url) (lines 61-65).
\* response is a constant of the try block and is gone.
EnterCatch(step) ==
    /\ threw' = step
    /\ UNCHANGED <<invVars, nameVars>>
    /\ logged' = TRUE
    /\ nav' = NoNav
    /\ selector' = "none"
    /\ requested' = url
    /\ pc' = "fallback"
    /\ UNCHANGED <<sessionVars, url, captured, fetched, result, navigated>>

\* page.goto rejects (timeout, crash).
GotoThrows ==
    /\ pc = "goto"
    /\ EnterCatch("goto")

\* The settle delay of line 47.
Settle ==
    /\ pc = "settle"
    /\ UNCHANGED <<invVars, nameVars>>
    /\ pc' = "selector"
    /\ UNCHANGED <<sessionVars, url, nav, selector, captured, fetched, result,
                   logged, threw, navigated, requested>>

\* page.waitForSelector resolves (line 51).
SelectorFound ==
    /\ pc = "selector"
    /\ UNCHANGED <<invVars, nameVars>>
    /\ selector' = "found"
    /\ pc' = "content"
    /\ UNCHANGED <<sessionVars, url, nav, captured, fetched, result, logged, threw,
                   navigated, requested>>

\* page.waitForSelector rejects (lines 52-54).
SelectorTimeout ==
    /\ pc = "selector"
    /\ IF AfterSelectorTimeout = "content"
       THEN /\ selector' = "timeout"
            /\ pc' = "content"
            /\ UNCHANGED <<invVars, nameVars>>
            /\ UNCHANGED <<sessionVars, url, nav, captured, fetched, result, logged,
                           threw, navigated, requested>>
       ELSE EnterCatch("selector")

\* page.content() resolves; the markup is parsed and returned (lines 57-60).
ContentOK(html) ==
    /\ pc = "content"
    /\ UNCHANGED <<invVars, nameVars>>
    /\ html \in Markups(Registered[cur])
    /\ captured' = [present |-> TRUE, status |-> NavStatus(nav), html |-> html]
    /\ result' = PrimaryResult(nav, html)
    /\ pc' = "returned"
    /\ UNCHANGED <<sessionVars, url, nav, selector, fetched, logged, threw,
                   navigated, requested>>

\* page.content() rejects.
ContentThrows ==
    /\ pc = "content"
    /\ EnterCatch("content")

\* fetch and resp.text() resolve (lines 65-68).
FetchOK(st, body) ==
    /\ pc = "fallback"
    /\ UNCHANGED <<invVars, nameVars>>
    /\ body \in Markups(Registered[cur])
    /\ fetched' = [present |-> TRUE, status |-> st, html |-> body]
    /\ result' = FallbackResult(st, body)
    /\ pc' = "returned"
    /\ UNCHANGED <<sessionVars, url, nav, selector, captured, logged, threw,
                   navigated, requested>>

\* fetch or resp.text() rejects.
FetchThrows ==
    /\ pc = "fallback"
    /\ UNCHANGED <<invVars, nameVars>>
    /\ pc' = FallbackFailure.pc
    /\ result' = FallbackFailure.result
    /\ UNCHANGED <<phase, portState, port, portCalls, server, browser, cur, outcome,
                   executed, snapshots, updateMode, url, nav, selector, captured,
                   fetched, logged, threw, navigated, requested>>

\* The rest of the scenario's body after render: its expects, against what
\* render returned; a rejection of render fails the scenario.  The runner
\* records the outcome and goes to the next scenario, or to afterAll.
FinishScenario ==
    /\ phase = "tests"
    /\ UNCHANGED <<invVars, nameVars>>
    /\ pc \in {"returned", "thrown"}
    /\ LET s == Registered[cur]
           stored == IF cur \in ComponentIds THEN snapshots[cur] ELSE NoSnapshot
           pass == /\ pc = "returned"
                   /\ BodyPasses(s, result, stored, updateMode)
       IN  /\ outcome' = [outcome EXCEPT ![cur] = IF pass THEN "passed" ELSE "failed"]
           /\ snapshots' =
                 IF cur \in ComponentIds /\ pc = "returned"
                 THEN [snapshots EXCEPT
                          ![cur] = SnapshotAfter(s, result, stored, updateMode)]
                 ELSE snapshots
    /\ cur' = cur + 1
    /\ pc' = "idle"
    /\ phase' = IF cur = N THEN "afterAll" ELSE "tests"
    /\ ClearCall
    /\ UNCHANGED <<portState, port, portCalls, server, browser, executed, updateMode>>

\* ---- afterAll (lines 129-135) ----
\* browser.close() resolves (when there is a browser), then server?.close().
AfterAllOK ==
    /\ phase = "afterAll"
    /\ UNCHANGED <<invVars, nameVars>>
    /\ browser' = IF browser.state = "none" THEN browser
                  ELSE [browser EXCEPT !.state = "closed", !.page = FALSE]
    /\ server' = [server EXCEPT !.live = FALSE]
    /\ phase' = "done"
    /\ UNCHANGED <<portState, port, portCalls, cur, pc, callVars, outcome, executed,
                   snapshots, updateMode>>

\* browser.close() rejects: the hook ends at line 132, line 134 is not reached.
\* Whether the browser process is gone by then is not known.
AfterAllThrows(gone) ==
    /\ phase = "afterAll"
    /\ UNCHANGED <<invVars, nameVars>>
    /\ browser.state = "live"
    /\ browser' = IF gone THEN [browser EXCEPT !.state = "closed", !.page = FALSE]
                  ELSE browser
    /\ phase' = "done"
    /\ UNCHANGED <<portState, port, portCalls, server, cur, pc, callVars, outcome,
                   executed, snapshots, updateMode>>

\* The next run of the suite: a new process, the snapshot file kept.
Rerun(update) ==
    /\ phase = "done"
    /\ UNCHANGED <<invVars, nameVars>>
    /\ phase' = "port"
    /\ portState' = "pending"
    /\ port' = 0
    /\ portCalls' = 1
    /\ server' = [live |-> FALSE, port |-> 0, created |-> 0]
    /\ browser' = [state |-> "none", created |-> 0, page |-> FALSE]
    /\ cur' = 1
    /\ pc' = "idle"
    /\ ClearCall
    /\ outcome' = [i \in ScenarioIds |-> "pending"]
    /\ executed' = [i \in ScenarioIds |-> FALSE]
    /\ updateMode' = update
    /\ UNCHANGED snapshots

Next ==
    \/ \E p \in FreePorts : PortResolves(p)
    \/ PortRejects
    \/ LaunchOK
    \/ LaunchThrows
    \/ NewPageOK
    \/ NewPageThrows
    \/ ViewportOK
    \/ ViewportThrows
    \/ \E fresh \in Ports : StartScenario(fresh)
    \/ \E st \in NavStatuses : GotoOK(Response(st))
    \/ GotoOK(NullResponse)
    \/ GotoThrows
    \/ Settle
    \/ SelectorFound
    \/ SelectorTimeout
    \/ \E html \in AllMarkups : ContentOK(html)
    \/ ContentThrows
    \/ \E st \in Statuses, body \in AllMarkups : FetchOK(st, body)
    \/ FetchThrows
    \/ FinishScenario
    \/ AfterAllOK
    \/ \E gone \in BOOLEAN : AfterAllThrows(gone)
    \/ \E update \in BOOLEAN : Rerun(update)

Spec == Init /\ [][Next]_vars

\* ---- the specifications of the two pure functions ----
InitInv == InitInventory /\ NameIdle /\ RunIdle

NextInventory == Discover

SpecInventory == InitInv /\ [][NextInventory]_vars

InitNameSpec == InitName /\ InventoryIdle /\ RunIdle

NextName == CallHandleComponentName

SpecName == InitNameSpec /\ [][NextName]_vars


(***************************************************************************)
(* Properties                                                              *)
(***************************************************************************)

\* render has come to its end, by a return or by a rejection.
RenderEnded == pc \in {"returned", "thrown"}

\* C1: when the primary strategy threw and the fallback fetch answered 200,
\* render returns (it does not reject) status 200 with the document parsed
\* from the fetched body, and no browser markup is part of the result.
FallbackTransparency ==
    (threw # "none" /\ fetched.present /\ fetched.status = HttpOk)
        => /\ pc = "returned"
           /\ result.status = HttpOk
           /\ result.doc = fetched.html
           /\ result.via = "fetch"
           /\ ~captured.present
           /\ requested = navigated

\* C1 witness: page.content() threw after a successful navigation, the fetch
\* answered 200 with a non-empty body, and render returned.
FallbackTransparencyWitness ==
    /\ pc = "returned"
    /\ threw = "content"
    /\ fetched.present
    /\ fetched.status = HttpOk
    /\ fetched.html # <<>>
    /\ result.via = "fetch"

\* The snapshot the scenario in execution is compared with.
StoredForCur == IF cur \in ComponentIds THEN snapshots[cur] ELSE NoSnapshot

\* C2 (state part): when both strategies failed, render rejects and returns
\* nothing; the scenarios before the current one have all run and have an
\* outcome; the tests end only after the last scenario (or, when beforeAll
\* failed, without any scenario having run).
IsolationState ==
    /\ (RenderEnded /\ threw # "none" /\ ~fetched.present)
          => (pc = "thrown" /\ result = NoResult)
    /\ \A i \in ScenarioIds :
          (i < cur) => (executed[i] /\ outcome[i] \in {"passed", "failed"})
    /\ phase \in {"afterAll", "done"} => cur \in {1, N + 1}
    /\ (phase \in {"afterAll", "done"} /\ cur = 1)
          => \A i \in ScenarioIds : ~executed[i] /\ outcome[i] = "failed"

\* C2 (step part): ending a scenario sets the outcome of that scenario only,
\* to failed when render rejected and otherwise to what the scenario's own
\* expects say of the scenario's own render result, and the runner goes on
\* with the next scenario.
IsolationStep ==
    RenderEnded =>
        /\ outcome'[cur] = IF pc = "returned"
                              /\ BodyPasses(Registered[cur], result, StoredForCur,
                                            updateMode)
                           THEN "passed" ELSE "failed"
        /\ \A i \in ScenarioIds \ {cur} : outcome'[i] = outcome[i]
        /\ cur' = cur + 1
        /\ pc' = "idle"
        /\ (cur < N) => phase' = "tests"

\* C2: if both strategies fail inside render, the failure leaves render and
\* exactly the invoking scenario is marked failed; every other registered
\* scenario still executes, with the outcome its own render result decides.
ScenarioIsolation == []IsolationState /\ [][IsolationStep]_vars

\* C2 witness: the render of the last scenario rejected after every other
\* scenario had run and passed.
ScenarioIsolationWitness ==
    /\ pc = "thrown"
    /\ cur = N
    /\ \A i \in ScenarioIds : i < N => (executed[i] /\ outcome[i] = "passed")

\* C3 as amended: a timeout of the selector wait never enters the fallback
\* (only page.goto and page.content() do); when the navigation succeeded and
\* page.content() did not throw, render returns the navigation's status (0
\* without a response) with the browser's document, whether or not the
\* selector appeared.
SelectorWaitTolerated ==
    /\ threw \in {"none", "goto", "content"}
    /\ selector = "timeout" => (threw = "none" /\ ~logged /\ requested = NoUrl)
    /\ (RenderEnded /\ threw = "none")
          => /\ pc = "returned"
             /\ selector \in {"found", "timeout"}
             /\ captured.present
             /\ result.via = "browser"
             /\ result.doc = captured.html
             /\ result.status = NavStatus(nav)
             /\ ~fetched.present
             /\ ~logged

\* C3 witness: the selector wait timed out and render returned the browser's
\* document with the navigation's status 200.
SelectorWaitToleratedWitness ==
    /\ pc = "returned"
    /\ selector = "timeout"
    /\ result.via = "browser"
    /\ result.status = HttpOk
    /\ result.doc # <<>>

\* C3 as stated: whenever the navigation succeeded, render returns the
\* navigation's status with the browser's document.
SelectorWaitOriginal ==
    (RenderEnded /\ threw # "goto")
        => /\ pc = "returned"
           /\ result.via = "browser"
           /\ ~fetched.present

\* C4 as stated: server and browser are created once, setup is complete
\* before any render starts, teardown starts after the last scenario, and
\* after teardown neither the browser nor the server is live.
SessionLifecycle ==
    /\ server.created <= 1
    /\ browser.created <= 1
    /\ pc # "idle" => (server.live /\ browser.state = "live" /\ browser.page)
    /\ phase \in {"tests", "afterAll", "done"} /\ cur > 1 => server.created = 1
    /\ (phase \in {"afterAll", "done"})
          => \A i \in ScenarioIds : outcome[i] \in {"passed", "failed"}
    /\ phase = "done" => (~server.live /\ browser.state # "live")

\* C5: portfinder is asked once; the server's port and the port of every URL
\* a render navigates to or fetches are the value of that one promise.
PortNegotiatedOnce ==
    /\ portCalls = 1
    /\ server.created > 0 => (portState = "resolved" /\ server.port = port)
    /\ url # NoUrl => url.port = port
    /\ navigated # NoUrl => (navigated.port = port /\ navigated = url)
    /\ requested # NoUrl => (requested.port = port /\ requested = url)
    /\ phase = "tests" => port \in FreePorts

\* C5 witness: a later scenario's render has navigated and fetched on the
\* port the server listens on.
PortNegotiatedOnceWitness ==
    /\ cur > 1
    /\ pc = "returned"
    /\ navigated # NoUrl
    /\ requested # NoUrl
    /\ server.live
    /\ requested.port = server.port

FixedIds == {i \in ScenarioIds : Registered[i].kind \in {"home", "text"}}

\* The text element a fixed scenario looks at.
RelevantText(s, doc) == IF s.kind = "home" THEN TitleText(doc) ELSE H1Text(doc)

\* C6 as stated: a fixed scenario passes exactly when the status is 200 and
\* the text element is empty or matches the expected phrase.
FixedScenariosOriginalStep ==
    (RenderEnded /\ cur \in FixedIds) =>
        LET s == Registered[cur]
            text == RelevantText(s, result.doc)
        IN  (outcome'[cur] = "passed")
               <=> /\ pc = "returned"
                   /\ result.status = HttpOk
                   /\ (text = <<>> \/ Includes(text, s.phrase))

FixedScenariosOriginal == [][FixedScenariosOriginalStep]_vars

\* C6 as amended: a fixed scenario fails whenever the status is not 200 (or
\* render rejected); with status 200 an overview or resources scenario passes
\* exactly when its h1 text is empty or contains the expected phrase, and a
\* home scenario passes whatever its title is.
FixedScenariosStep ==
    (RenderEnded /\ cur \in FixedIds) =>
        LET s == Registered[cur]
            text == RelevantText(s, result.doc)
        IN  (outcome'[cur] = "passed")
               <=> /\ pc = "returned"
                   /\ result.status = HttpOk
                   /\ (s.kind = "home" \/ text = <<>> \/ Includes(text, s.phrase))

FixedScenariosAmended == [][FixedScenariosStep]_vars

\* C6 witness: the first home scenario passed, the first overview scenario
\* failed, and the second overview scenario got status 200 with a non-empty
\* h1.
FixedScenariosWitness ==
    /\ cur = 4
    /\ pc = "returned"
    /\ outcome[1] = "passed"
    /\ outcome[3] = "failed"
    /\ result.status = HttpOk
    /\ H1Text(result.doc) # <<>>

\* Number of table elements inside the .markdown region of a document.
MarkdownTableCount(doc) ==
    Cardinality({i \in 1..Len(doc) : doc[i].tag = "table" /\ doc[i].md})

\* C7: in a run that does not update snapshots, a component scenario with a
\* recorded baseline passes only if the number of tables in the markdown
\* region equals the baseline, and the baseline stays as it is; a recorded
\* baseline changes only in a run that updates snapshots.
TableBaselineStep ==
    /\ (RenderEnded /\ cur \in ComponentIds /\ snapshots[cur].recorded /\ ~updateMode)
          => /\ outcome'[cur] = "passed"
                    => /\ pc = "returned"
                       /\ MarkdownTableCount(result.doc) = snapshots[cur].count
             /\ snapshots' = snapshots
    /\ \A i \in ComponentIds :
          (snapshots[i].recorded /\ snapshots'[i] # snapshots[i])
              => (updateMode /\ i = cur /\ pc = "returned"
                    /\ snapshots'[i] = Recorded(MarkdownTableCount(result.doc)))

TableBaseline == [][TableBaselineStep]_vars

\* C7 witness: without snapshot update, a component page answers 200 with a
\* number of markdown tables other than the recorded baseline.
TableBaselineWitness ==
    /\ pc = "returned"
    /\ cur \in ComponentIds
    /\ ~updateMode
    /\ snapshots[cur].recorded
    /\ result.status = HttpOk
    /\ MarkdownTableCount(result.doc) # snapshots[cur].count
    /\ H1Text(result.doc) = <<>>


\* ---- page inventory ----

\* The identifier ends in the extension the regular expression asks for.
EndsInExtension(id) == id # <<>> /\ LowerAtom(id[Len(id)]) = ".md"

\* The identifiers of the matched files, before uniq and filter.
MatchedIds == {Normalize(matched[i]) : i \in 1..Len(matched)}

\* C8 as stated: normalizing the identifier of a matched source path returns
\* it unchanged.
NormalizeIdempotentOriginal ==
    ipc = "discovered" => \A id \in MatchedIds : Normalize(id) = id

\* C8 as amended: normalizing the identifier of a matched source path returns
\* it unchanged, unless the identifier itself still ends in ".md" (a file such
\* as b.md.md).
NormalizeIdempotent ==
    ipc = "discovered" =>
        /\ \A id \in MatchedIds : ~EndsInExtension(id) => Normalize(id) = id
        /\ \A i \in 1..Len(components) :
              ~EndsInExtension(components[i]) => Normalize(components[i]) = components[i]

\* C8 witness: on win32 the two locale files of components\a\index give the
\* one identifier components/a, which differs from both paths.
NormalizeIdempotentWitness ==
    /\ ipc = "discovered"
    /\ platform = "win32"
    /\ Len(matched) = 2
    /\ components = << <<"components", "/", "a">> >>
    /\ \A i \in 1..Len(matched) : Normalize(matched[i]) # ReplaceBackslashes(matched[i])

LocaleAtoms == {".zh-CN", ".zh-cn", ".en-US", ".en-us"}

\* The endings by which two paths of the same page may differ: an optional
\* index segment, an optional locale suffix, the extension.
FormEndings ==
    {i \o l \o <<".md">> : i \in {<<>>, <<"/", "index">>},
                           l \in {<<>>} \cup {<<a>> : a \in LocaleAtoms}}

\* What is left of p when one of the endings is taken off.
Bases(p) ==
    {SubSeq(p, 1, k) : k \in {j \in 0..Len(p) : SubSeq(p, j + 1, Len(p)) \in FormEndings}}

\* The base does not itself end in an index segment, a variant-tab suffix or
\* a locale suffix.
PlainBase(b) ==
    /\ b # <<>>
    /\ LowerAtom(b[Len(b)]) \notin {".zh-cn", ".en-us", ".$tab-design"}
    /\ ~(Len(b) >= 2 /\ b[Len(b) - 1] = "/" /\ LowerAtom(b[Len(b)]) = "index")

\* p and q differ only by locale suffix or index-file form.
SameButForm(p, q) == p # q /\ Bases(p) \cap Bases(q) # {}

SameButFormPlain(p, q) == p # q /\ \E b \in Bases(p) \cap Bases(q) : PlainBase(b)

Occurrences(id) == Cardinality({i \in 1..Len(components) : components[i] = id})

\* The inventory holds the identifier of every matched file once, unless it
\* includes _util, and holds nothing else and nothing that includes _util.
InventoryDeduplicated ==
    /\ \A id \in MatchedIds : Occurrences(id) = IF NotUtil(id) THEN 1 ELSE 0
    /\ \A i \in 1..Len(components) :
          components[i] \in MatchedIds /\ NotUtil(components[i])

\* C9 as stated: two source paths that differ only by locale suffix or
\* index-file form have the same identifier, and the inventory holds each
\* identifier once and none that includes _util.
SameIdentifierOriginal ==
    ipc = "discovered" =>
        /\ \A i, j \in 1..Len(tree) :
              SameButForm(tree[i], tree[j])
                 => Normalize(Native(tree[i], platform))
                       = Normalize(Native(tree[j], platform))
        /\ InventoryDeduplicated

\* C9 as amended: the same, for two paths whose common base does not itself
\* end in an index segment, a variant-tab suffix or a locale suffix.
SameIdentifier ==
    ipc = "discovered" =>
        /\ \A i, j \in 1..Len(tree) :
              SameButFormPlain(tree[i], tree[j])
                 => Normalize(Native(tree[i], platform))
                       = Normalize(Native(tree[j], platform))
        /\ InventoryDeduplicated

\* C9 witness: two matched files of one page that differ only by form, and an
\* inventory of one identifier.
SameIdentifierWitness ==
    /\ ipc = "discovered"
    /\ Len(tree) = 2
    /\ Len(matched) = 2
    /\ SameButFormPlain(tree[1], tree[2])
    /\ Len(components) = 1

\* ---- handleComponentName ----
\* The last segment, lower-cased, without its trailing locale marker and
\* without any hyphen.
ExpectedName(n) ==
    LET seg == ToLowerCase(LastPart(n))
        base == IF EndsInMarker(seg) THEN SubSeq(seg, 1, Len(seg) - Len(LocaleMarker))
                ELSE seg
    IN  SelectSeq(base, LAMBDA a : a # "-")

\* C10 as stated: handleComponentName returns the last segment lower-cased
\* with the locale marker and all hyphens removed; the result has no hyphen
\* and no upper-case letter, and the -cn variant of the identifier yields the
\* same name.
ComponentNameOriginal ==
    npc = "returned" =>
        /\ derived = ExpectedName(name)
        /\ \A i \in 1..Len(derived) : derived[i] # "-" /\ LowerAtom(derived[i]) = derived[i]
        /\ LET id == IF EndsInMarker(name)
                     THEN SubSeq(name, 1, Len(name) - Len(LocaleMarker)) ELSE name
           IN  HandleComponentName(id \o LocaleMarker) = HandleComponentName(id)


====
